---- MODULE Spec2Model ----
(***************************************************************************)
(* Model of the aim-chatbot conversation engine: the message log kept by   *)
(* App.tsx (useState messages), the generateResponse orchestration with    *)
(* its three routes, and the module-level chat session of                  *)
(* services/geminiService.ts.                                              *)
(*                                                                         *)
(* JavaScript runs one task at a time: every action below is one task (a   *)
(* click handler up to its first pending await, or the continuation of an  *)
(* await once the provider answered).  Optional fields (x?: T) are         *)
(* modelled as sequences of length 0 (undefined) or 1.  Text is a sequence *)
(* of pieces: user prompts, provider chunk texts and provider error        *)
(* descriptions are spelled character by character, the string literals of *)
(* the source are one piece each.  Message.timestamp (Date.now()) is never *)
(* read by the code and is left out.                                       *)
(***************************************************************************)
EXTENDS Integers, Sequences, FiniteSets, TLC

VARIABLES
    messages,      \* App.tsx:9   useState<Message[]>
    isLoading,     \* App.tsx:10
    hasApiKey,     \* App.tsx:11
    apiKey,        \* process.env.API_KEY as read by the service
    chatSession,   \* geminiService.ts:5  module-level singleton
    nextSession,   \* number of Chat objects ai.chats.create has returned
    nextId,        \* number of uuidv4() values handed out
    gens,          \* the generateResponse attempts in order of start: those in
                   \* flight and, per message of the log, its last finished one
    resets,        \* number of resetSession() calls since mount
    refused,       \* ids for which handleRetry returned early
    inputs         \* number of inputs taken so far: calls of sendMessage, retry
                   \* and submitFeedback, chunks streamed, polls answered "not done"

vars == <<messages, isLoading, hasApiKey, apiKey, chatSession, nextSession,
          nextId, gens, resets, refused, inputs>>

-----------------------------------------------------------------------------
(* Bounds of the model *)

MaxInputs == 3

-----------------------------------------------------------------------------
(* Optional values *)

None == <<>>

Some(x) == <<x>>

IsSome(o) == o # <<>>

Val(o) == o[1]

-----------------------------------------------------------------------------
(* Text *)

UpperCase == <<"A", "C", "D", "E", "G", "H", "I", "K", "M", "N", "O", "R", "T", "V">>

LowerCase == <<"a", "c", "d", "e", "g", "h", "i", "k", "m", "n", "o", "r", "t", "v">>

LowerChar(c) ==
    IF \E i \in DOMAIN UpperCase : UpperCase[i] = c
    THEN LowerCase[CHOOSE i \in DOMAIN UpperCase : UpperCase[i] = c]
    ELSE c

ToLowerCase(s) == [i \in DOMAIN s |-> LowerChar(s[i])]

Includes(s, sub) ==
    \E i \in 0..(Len(s) - Len(sub)) : SubSeq(s, i + 1, i + Len(sub)) = sub

RECURSIVE Trim(_)
Trim(s) ==
    IF s = <<>> THEN s
    ELSE IF Head(s) = " " THEN Trim(Tail(s))
    ELSE IF s[Len(s)] = " " THEN Trim(SubSeq(s, 1, Len(s) - 1))
    ELSE s

GenerateAVideo == <<"g","e","n","e","r","a","t","e"," ","a"," ","v","i","d","e","o">>

CreateAVideo == <<"c","r","e","a","t","e"," ","a"," ","v","i","d","e","o">>

MakeAVideo == <<"m","a","k","e"," ","a"," ","v","i","d","e","o">>

-----------------------------------------------------------------------------
(* Inputs of the model: what the user types and attaches, what the         *)
(* provider streams, and how the provider fails.                           *)

Image == [inlineData |-> [data |-> "iVBOR", mimeType |-> "image/png"]]

PromptMakeVideo == <<"M","a","k","e"," ","A"," ","V","I","D","E","O">>

PromptNearMiss == <<"m","a","k","e"," ","v","i","d","e","o">>

\* what the user submits: a text that is no video request, a video request,
\* an image with a video request as its text
Inputs ==
    { [text |-> PromptNearMiss, attachment |-> None],
      [text |-> PromptMakeVideo, attachment |-> None],
      [text |-> PromptMakeVideo, attachment |-> Some(Image)] }

Source1 == [title |-> "t1", uri |-> "u1"]

Source2 == [title |-> "t2", uri |-> "u2"]

\* GenerateContentResponse as far as the stream loop reads it: text and
\* candidates[0].groundingMetadata.groundingChunks, each chunk with an
\* optional web part.
ProviderChunks ==
    { [text |-> Some(<<"a">>), groundingChunks |-> None],
      [text |-> None,
       groundingChunks |-> Some(<<[web |-> Some(Source1)]>>)],
      [text |-> Some(<<"b">>),
       groundingChunks |-> Some(<<[web |-> None], [web |-> Some(Source2)]>>)],
      [text |-> Some(<<"a">>), groundingChunks |-> Some(<<[web |-> None]>>)] }

\* error.message of a failure raised by the provider SDK
ProviderErrors ==
    { None,
      Some(<<"4","2","9">>),
      Some(<<"b","o","o","m">>) }

\* the operation handle of a video generation: done and
\* response.generatedVideos[0].video.uri
Operations ==
    { [done |-> FALSE, uri |-> None],
      [done |-> TRUE, uri |-> Some("https://video/1?alt=media")],
      [done |-> TRUE, uri |-> None] }

Keys == {None, Some("KEY")}

-----------------------------------------------------------------------------
(* Messages (types.ts Message) and the patches App.tsx applies to them *)

UserMessage(id, text, attachment) ==
    [id |-> id, role |-> "user", content |-> text, isStreaming |-> None,
     groundingSources |-> None, isError |-> None, feedback |-> None,
     attachment |-> attachment, video |-> None]

BotMessagePlaceholder(id) ==
    [id |-> id, role |-> "model", content |-> <<>>, isStreaming |-> Some(TRUE),
     groundingSources |-> None, isError |-> None, feedback |-> None,
     attachment |-> None, video |-> None]

Truthy(o) == o = Some(TRUE)

GeneratingNotice == <<"Generating video... This may take a moment.">>

VideoReadyText == <<"Here is your generated video:">>

GenericAppError == <<"I'm sorry, I encountered an error while processing your request.">>

InterimPatch(msg) == [msg EXCEPT !.content = GeneratingNotice]

VideoPatch(msg, videoUri) ==
    [msg EXCEPT !.content = VideoReadyText, !.video = Some([uri |-> videoUri])]

ChunkPatchPrepend(msg, chunk, sources) ==
    LET updatedMsg == [msg EXCEPT !.content = chunk \o msg.content]
    IN  IF IsSome(sources) /\ Len(Val(sources)) > 0
        THEN [updatedMsg EXCEPT !.groundingSources = sources]
        ELSE updatedMsg

ChunkPatchMerge(msg, chunk, sources) ==
    LET updatedMsg == [msg EXCEPT !.content = msg.content \o chunk]
    IN  IF IsSome(sources) /\ Len(Val(sources)) > 0
        THEN [updatedMsg EXCEPT !.groundingSources =
                 IF IsSome(msg.groundingSources)
                 THEN Some(Val(msg.groundingSources) \o Val(sources))
                 ELSE sources]
        ELSE updatedMsg

ChunkPatch(msg, chunk, sources) ==
    LET updatedMsg == [msg EXCEPT !.content = msg.content \o chunk]
    IN  IF IsSome(sources) /\ Len(Val(sources)) > 0
        THEN [updatedMsg EXCEPT !.groundingSources = sources]
        ELSE updatedMsg

ErrorPatchAppend(msg, errorMessage) ==
    [msg EXCEPT !.content = msg.content \o
                    (IF IsSome(errorMessage) /\ Val(errorMessage) # <<>>
                     THEN Val(errorMessage) ELSE GenericAppError),
                !.isStreaming = Some(FALSE),
                !.isError = Some(TRUE)]

ErrorPatch(msg, errorMessage) ==
    [msg EXCEPT !.content = IF IsSome(errorMessage) /\ Val(errorMessage) # <<>>
                            THEN Val(errorMessage) ELSE GenericAppError,
                !.isStreaming = Some(FALSE),
                !.isError = Some(TRUE)]

StreamingOffPatch(msg) == [msg EXCEPT !.isStreaming = Some(FALSE)]

ResetPatchKeepSources(msg) ==
    [msg EXCEPT !.content = <<>>, !.isError = Some(FALSE),
                !.isStreaming = Some(TRUE), !.video = None]

ResetPatch(msg) ==
    [msg EXCEPT !.content = <<>>, !.isError = Some(FALSE),
                !.isStreaming = Some(TRUE), !.groundingSources = None,
                !.video = None]

FeedbackPatchSet(msg, type) == [msg EXCEPT !.feedback = Some(type)]

FeedbackPatch(msg, type) ==
    [msg EXCEPT !.feedback = IF msg.feedback = Some(type) THEN None ELSE Some(type)]

\* The object an updater returns for the message it is about; the updater is
\* named by the place of its setMessages call and carries what it closes over.
ApplyPatch(msg, patch) ==
    CASE patch.kind = "interim" -> InterimPatch(msg)
      [] patch.kind = "video" -> VideoPatch(msg, patch.videoUri)
      [] patch.kind = "chunk" -> ChunkPatch(msg, patch.chunk, patch.sources)
      [] patch.kind = "error" -> ErrorPatch(msg, patch.errorMessage)
      [] patch.kind = "final" -> StreamingOffPatch(msg)
      [] patch.kind = "reset" -> ResetPatch(msg)
      [] patch.kind = "feedback" -> FeedbackPatch(msg, patch.type)

\* prev.map(msg => msg.id === id ? patched(msg) : msg)
MapByIdOrAppend(log, id, patch) ==
    IF \E i \in DOMAIN log : log[i].id = id
    THEN [i \in DOMAIN log |-> IF log[i].id = id THEN ApplyPatch(log[i], patch) ELSE log[i]]
    ELSE Append(log, ApplyPatch(BotMessagePlaceholder(id), patch))

MapById(log, id, patch) ==
    [i \in DOMAIN log |-> IF log[i].id = id THEN ApplyPatch(log[i], patch) ELSE log[i]]

\* messages.findIndex(m => m.id === id), 0 for -1 (sequences start at 1)
FindIndex(log, id) ==
    IF \E i \in DOMAIN log : log[i].id = id
    THEN CHOOSE i \in DOMAIN log :
            log[i].id = id /\ \A j \in 1..(i - 1) : log[j].id # id
    ELSE 0

InLog(log, id) == FindIndex(log, id) # 0

MsgOf(log, id) == log[FindIndex(log, id)]

-----------------------------------------------------------------------------
(* services/geminiService.ts *)

KeyMissing == <<"API Key is missing. Please select an API key.">>

UnexpectedError == <<"An unexpected error occurred. Please try again.">>

RateLimited == <<"You are sending requests too quickly. Please wait a moment before trying again.">>

Overloaded == <<"The AI service is currently overloaded. Please try again in a few seconds.">>

KeyProblem == <<"There is an issue with the API configuration. Please check the API key.">>

SafetyBlocked == <<"I cannot generate a response to that request due to safety guidelines.">>

VideoFailed == <<"Failed to generate video. Please try again.">>

\* the catch block of streamGeminiResponse: the message of the Error it throws
StreamErrorMessageReordered(error) ==
    IF IsSome(error) /\ Val(error) # <<>>
    THEN LET m == Val(error)
         IN  IF Includes(m, <<"5","0","3">>) THEN Overloaded
             ELSE IF Includes(m, <<"4","2","9">>) THEN RateLimited
             ELSE IF Includes(m, <<"S","A","F","E","T","Y">>) THEN SafetyBlocked
             ELSE IF Includes(m, <<"A","P","I"," ","k","e","y">>) THEN KeyProblem
             ELSE <<"Error: ">> \o m
    ELSE UnexpectedError

StreamErrorMessageRaw(error) ==
    IF IsSome(error) /\ Val(error) # <<>>
    THEN LET m == Val(error)
         IN  IF Includes(m, <<"4","2","9">>) THEN RateLimited
             ELSE IF Includes(m, <<"5","0","3">>) THEN Overloaded
             ELSE IF Includes(m, <<"A","P","I"," ","k","e","y">>) THEN KeyProblem
             ELSE IF Includes(m, <<"S","A","F","E","T","Y">>) THEN SafetyBlocked
             ELSE m
    ELSE UnexpectedError

StreamErrorMessage(error) ==
    IF IsSome(error) /\ Val(error) # <<>>
    THEN LET m == Val(error)
         IN  IF Includes(m, <<"4","2","9">>) THEN RateLimited
             ELSE IF Includes(m, <<"5","0","3">>) THEN Overloaded
             ELSE IF Includes(m, <<"A","P","I"," ","k","e","y">>) THEN KeyProblem
             ELSE IF Includes(m, <<"S","A","F","E","T","Y">>) THEN SafetyBlocked
             ELSE <<"Error: ">> \o m
    ELSE UnexpectedError

\* groundingChunks.map(c => c.web).filter(web => web).map(web => ({title, uri}))
ExtractSources(groundingChunks) ==
    IF IsSome(groundingChunks)
    THEN LET webs == [i \in DOMAIN Val(groundingChunks) |-> Val(groundingChunks)[i].web]
             kept == SelectSeq(webs, LAMBDA web : IsSome(web))
         IN  Some([i \in DOMAIN kept |->
                     [title |-> Val(kept[i]).title, uri |-> Val(kept[i]).uri]])
    ELSE None

\* c.text || ''
ChunkText(c) == IF IsSome(c.text) THEN Val(c.text) ELSE <<>>

\* `${videoUri}&key=${apiKey}`
KeyedUri(videoUri, key) == <<videoUri, "&key=", key>>

-----------------------------------------------------------------------------
(* The mutable state one task reads and writes, threaded through the       *)
(* statements of a handler in program order.                               *)

World ==
    [messages |-> messages, isLoading |-> isLoading, chatSession |-> chatSession,
     nextSession |-> nextSession, gens |-> gens, resets |-> resets]

\* The record of a finished attempt is kept as long as its message is in the
\* log and has not been retried since, and in the state in which it finished.
Kept(w) ==
    LET keep(i) ==
            \/ w.gens[i].pc # "done"
            \/ \A j \in DOMAIN gens : gens[j] # w.gens[i]
            \/ /\ InLog(w.messages, w.gens[i].target)
               /\ \A j \in (i + 1)..Len(w.gens) : w.gens[j].target # w.gens[i].target
        RECURSIVE from(_)
        from(i) == IF i > Len(w.gens) THEN <<>>
                   ELSE IF keep(i) THEN <<w.gens[i]>> \o from(i + 1)
                   ELSE from(i + 1)
    IN  from(1)

Install(w) ==
    /\ messages' = w.messages
    /\ isLoading' = w.isLoading
    /\ chatSession' = w.chatSession
    /\ nextSession' = w.nextSession
    /\ gens' = Kept(w)
    /\ resets' = w.resets

\* geminiService.ts resetSession
ResetSession(w) == [w EXCEPT !.chatSession = None, !.resets = @ + 1]

\* One setMessages(prev => prev.map(...)) issued by attempt g.  The attempt
\* keeps a record of the mutations it issued: the kind, whether the patch
\* writes isStreaming = false, and whether the flag of the target went from
\* true to something else.
Mutate(w, g, patch) ==
    LET id == w.gens[g].target
        after == MapById(w.messages, id, patch)
        entry == [kind |-> patch.kind,
                  clears |-> ApplyPatch(BotMessagePlaceholder(0), patch).isStreaming
                                = Some(FALSE),
                  flipped |-> /\ InLog(w.messages, id)
                              /\ Truthy(MsgOf(w.messages, id).isStreaming)
                              /\ ~Truthy(MsgOf(after, id).isStreaming)]
    IN  [w EXCEPT !.messages = after, !.gens[g].muts = Append(@, entry)]

\* App.tsx catch block of generateResponse (lines 102-126)
CatchBlockNoReset(w, g, errorMessage) ==
    LET w2 == Mutate(w, g, [kind |-> "error", errorMessage |-> errorMessage])
    IN  [w2 EXCEPT !.gens[g].outcome = "error", !.gens[g].thrown = errorMessage,
                   !.gens[g].pending = None]

CatchBlock(w, g, errorMessage) ==
    LET w1 == ResetSession(w)
        w2 == Mutate(w1, g, [kind |-> "error", errorMessage |-> errorMessage])
    IN  [w2 EXCEPT !.gens[g].outcome = "error",
                   !.gens[g].thrown = errorMessage,
                   !.gens[g].discarded = w.chatSession,
                   !.gens[g].pending = None]

\* App.tsx finally block of generateResponse (lines 127-133)
FinallyBlockNoPatch(w, g) ==
    [w EXCEPT !.isLoading = FALSE,
              !.gens[g].pc = "done",
              !.gens[g].outcome = IF @ = "none" THEN "ok" ELSE @,
              !.gens[g].settled = IF w.gens[g].pending = None
                                  THEN "fulfilled" ELSE "rejected"]

FinallyBlock(w, g) ==
    LET w1 == Mutate(w, g, [kind |-> "final"])
    IN  [w1 EXCEPT !.isLoading = FALSE,
                   !.gens[g].pc = "done",
                   !.gens[g].outcome = IF @ = "none" THEN "ok" ELSE @,
                   !.gens[g].settled = IF w.gens[g].pending = None
                                       THEN "fulfilled" ELSE "rejected"]

\* An Error thrown inside the try of generateResponse: it is pending until a
\* catch takes it; the promise of generateResponse is rejected when the
\* finally block ends with the Error still pending.
ThrowPastCatch(w, g, errorMessage) ==
    FinallyBlock([w EXCEPT !.gens[g].pending = errorMessage,
                           !.gens[g].outcome = "error",
                           !.gens[g].thrown = errorMessage], g)

Throw(w, g, errorMessage) ==
    FinallyBlock(CatchBlock([w EXCEPT !.gens[g].pending = errorMessage],
                            g, errorMessage), g)

\* if (!chatSession) chatSession = ai.chats.create(...)
LazySessionAlways(w) ==
    [w EXCEPT !.chatSession = Some(w.nextSession + 1), !.nextSession = @ + 1]

LazySessionRacing(w) ==
    IF \/ ~IsSome(w.chatSession)
       \/ \E i \in DOMAIN w.gens :
             w.gens[i].pc \in {"open", "stream"} /\ w.gens[i].created
    THEN [w EXCEPT !.chatSession = Some(w.nextSession + 1), !.nextSession = @ + 1]
    ELSE w

LazySession(w) ==
    IF ~IsSome(w.chatSession)
    THEN [w EXCEPT !.chatSession = Some(w.nextSession + 1), !.nextSession = @ + 1]
    ELSE w

\* the text route of streamGeminiResponse: the session, then sendMessageStream
ChatRoute(w, g) ==
    LET w1 == LazySession(w)
    IN  [w1 EXCEPT !.gens[g].pc = "open",
                   !.gens[g].remote = Append(@, "sendMessageStream"),
                   !.gens[g].session = w1.chatSession,
                   !.gens[g].created = (w1.nextSession # w.nextSession)]

\* the image route of streamGeminiResponse: generateContentStream
ImageRouteUsingSession(w, g) == ChatRoute(w, g)

ImageRoute(w, g) ==
    [w EXCEPT !.gens[g].pc = "open",
              !.gens[g].remote = Append(@, "generateContentStream")]

\* streamGeminiResponse up to its first await
StreamStart(w, g) ==
    LET w1 == [w EXCEPT !.gens[g].service = "streamGeminiResponse"]
    IN  IF ~IsSome(w1.gens[g].key) THEN Throw(w1, g, Some(KeyMissing))
        ELSE IF IsSome(w1.gens[g].attachment) THEN ImageRoute(w1, g)
        ELSE ChatRoute(w1, g)

\* generateVideo up to its first await
VideoStart(w, g) ==
    LET w1 == [w EXCEPT !.gens[g].service = "generateVideo"]
    IN  IF ~IsSome(w1.gens[g].key) THEN Throw(w1, g, Some(KeyMissing))
        ELSE [w1 EXCEPT !.gens[g].pc = "submit",
                        !.gens[g].remote = Append(@, "generateVideos")]

\* the last attempt made so far on a message, if any
PreviousAttempt(w, botMessageId) ==
    LET on == {i \in DOMAIN w.gens : w.gens[i].target = botMessageId}
    IN  IF on = {} THEN None
        ELSE LET last == w.gens[CHOOSE i \in on : \A j \in on : j <= i]
             IN  Some([service |-> last.service, prompt |-> last.prompt,
                       attachment |-> last.attachment])

\* the attempt generateResponse(prompt, attachment, botMessageId) as it is
\* entered; kind tells the caller (handleSendMessage or handleRetry)
NewGen(w, prompt, attachment, botMessageId, kind) ==
    [target |-> botMessageId, kind |-> kind, prompt |-> prompt,
     attachment |-> attachment, service |-> "none", remote |-> <<>>,
     pc |-> "entered", key |-> apiKey, session |-> None, created |-> FALSE,
     discarded |-> None, sessionBefore |-> w.chatSession,
     resetsBefore |-> w.resets,
     startMsg |-> IF InLog(w.messages, botMessageId)
                  THEN Some(MsgOf(w.messages, botMessageId)) ELSE None,
     previous |-> PreviousAttempt(w, botMessageId),
     delivered |-> <<>>, outcome |-> "none", thrown |-> None, muts |-> <<>>,
     failure |-> None, pending |-> None, settled |-> "pending",
     operation |-> None, waits |-> 0]

\* !attachment && (lowerPrompt.includes(...) || ...)
IsVideoRequestIgnoringAttachment(prompt, attachment) ==
    LET lowerPrompt == ToLowerCase(prompt)
    IN  \/ Includes(lowerPrompt, GenerateAVideo)
        \/ Includes(lowerPrompt, CreateAVideo)
        \/ Includes(lowerPrompt, MakeAVideo)

IsVideoRequest(prompt, attachment) ==
    LET lowerPrompt == ToLowerCase(prompt)
    IN  ~IsSome(attachment) /\
        ( Includes(lowerPrompt, GenerateAVideo)
          \/ Includes(lowerPrompt, CreateAVideo)
          \/ Includes(lowerPrompt, MakeAVideo) )

\* generateResponse from its entry to its first pending await
GenerateResponseNoNotice(w, prompt, attachment, botMessageId, kind) ==
    LET g == Len(w.gens) + 1
        w1 == [w EXCEPT !.isLoading = TRUE,
                        !.gens = Append(@, NewGen(w, prompt, attachment,
                                                  botMessageId, kind))]
    IN  IF IsVideoRequest(prompt, attachment)
        THEN VideoStart(w1, g)
        ELSE StreamStart(w1, g)

GenerateResponse(w, prompt, attachment, botMessageId, kind) ==
    LET g == Len(w.gens) + 1
        w1 == [w EXCEPT !.isLoading = TRUE,
                        !.gens = Append(@, NewGen(w, prompt, attachment,
                                                  botMessageId, kind))]
    IN  IF IsVideoRequest(prompt, attachment)
        THEN VideoStart(Mutate(w1, g, [kind |-> "interim"]), g)
        ELSE StreamStart(w1, g)

-----------------------------------------------------------------------------
(* The handlers of App.tsx *)

\* the chat screen is rendered (App.tsx:208-252)
ChatScreen == hasApiKey

HandleSelectKey ==
    /\ ~hasApiKey
    /\ hasApiKey' = TRUE
    /\ apiKey' \in {apiKey, Some("KEY")}
    /\ UNCHANGED <<messages, isLoading, chatSession, nextSession, nextId, gens,
                   resets, refused, inputs>>

HandleSendMessagePlaceholderFirst(text, attachment) ==
    LET userMessage == UserMessage(nextId + 1, text, attachment)
        botMessageId == nextId + 2
        w0 == [World EXCEPT !.messages =
                  @ \o <<BotMessagePlaceholder(botMessageId), userMessage>>]
    IN  /\ Install(GenerateResponse(w0, text, attachment, botMessageId, "send"))
        /\ nextId' = nextId + 2
        /\ UNCHANGED <<hasApiKey, apiKey, refused>>

HandleSendMessage(text, attachment) ==
    LET userMessage == UserMessage(nextId + 1, text, attachment)
        botMessageId == nextId + 2
        w0 == [World EXCEPT !.messages =
                  @ \o <<userMessage, BotMessagePlaceholder(botMessageId)>>]
    IN  /\ Install(GenerateResponse(w0, text, attachment, botMessageId, "send"))
        /\ nextId' = nextId + 2
        /\ UNCHANGED <<hasApiKey, apiKey, refused>>

\* ChatInput handleSubmit (types.ts:110-114)
Submit ==
    /\ ChatScreen
    /\ ~isLoading
    /\ inputs < MaxInputs
    /\ inputs' = inputs + 1
    /\ \E in \in Inputs :
          /\ Trim(in.text) # <<>> \/ IsSome(in.attachment)
          /\ HandleSendMessage(in.text, in.attachment)

HandleRetryAnyPredecessor(botMessageId) ==
    LET botMsgIndex == FindIndex(messages, botMessageId)
    IN  IF botMsgIndex = 0 \/ botMsgIndex = 1
        THEN /\ refused' = refused \cup {botMessageId}
             /\ UNCHANGED <<messages, isLoading, hasApiKey, apiKey, chatSession,
                            nextSession, nextId, gens, resets>>
        ELSE LET previousMsg == messages[botMsgIndex - 1]
                 w0 == [World EXCEPT !.messages =
                           MapById(@, botMessageId, [kind |-> "reset"])]
             IN  /\ Install(GenerateResponse(w0, previousMsg.content,
                                             previousMsg.attachment,
                                             botMessageId, "retry"))
                 /\ UNCHANGED <<hasApiKey, apiKey, nextId, refused>>

HandleRetry(botMessageId) ==
    LET botMsgIndex == FindIndex(messages, botMessageId)
    IN  IF botMsgIndex = 0
           \/ botMsgIndex = 1
           \/ messages[botMsgIndex - 1].role # "user"
        THEN /\ refused' = refused \cup {botMessageId}
             /\ UNCHANGED <<messages, isLoading, hasApiKey, apiKey, chatSession,
                            nextSession, nextId, gens, resets>>
        ELSE LET previousMsg == messages[botMsgIndex - 1]
                 w0 == [World EXCEPT !.messages =
                           MapById(@, botMessageId, [kind |-> "reset"])]
             IN  /\ Install(GenerateResponse(w0, previousMsg.content,
                                             previousMsg.attachment,
                                             botMessageId, "retry"))
                 /\ UNCHANGED <<hasApiKey, apiKey, nextId, refused>>

\* the Try Again button (App.tsx:313, ChatMessage isError && onRetry)
RetryOnAnyMessage ==
    /\ ChatScreen
    /\ inputs < MaxInputs
    /\ inputs' = inputs + 1
    /\ \E i \in DOMAIN messages :
          /\ messages[i].role # "user"
          /\ HandleRetry(messages[i].id)

Retry ==
    /\ ChatScreen
    /\ inputs < MaxInputs
    /\ inputs' = inputs + 1
    /\ \E i \in DOMAIN messages :
          /\ Truthy(messages[i].isError)
          /\ HandleRetry(messages[i].id)

HandleFeedback(messageId, type) ==
    /\ messages' = MapById(messages, messageId, [kind |-> "feedback", type |-> type])
    /\ UNCHANGED <<isLoading, hasApiKey, apiKey, chatSession, nextSession,
                   nextId, gens, resets, refused>>

\* the thumbs buttons (ChatMessage: !isUser && !isError)
FeedbackOnAnyMessage ==
    /\ ChatScreen
    /\ inputs < MaxInputs
    /\ inputs' = inputs + 1
    /\ \E i \in DOMAIN messages, type \in {"up", "down"} :
          HandleFeedback(messages[i].id, type)

Feedback ==
    /\ ChatScreen
    /\ inputs < MaxInputs
    /\ inputs' = inputs + 1
    /\ \E i \in DOMAIN messages, type \in {"up", "down"} :
          /\ messages[i].role # "user"
          /\ ~Truthy(messages[i].isError)
          /\ HandleFeedback(messages[i].id, type)

HandleClearChat ==
    /\ Install([ResetSession(World) EXCEPT !.messages = <<>>])
    /\ UNCHANGED <<hasApiKey, apiKey, nextId, refused, inputs>>

\* the Clear Chat button (App.tsx:270-273)
ClearChat ==
    /\ ChatScreen
    /\ Len(messages) > 0
    /\ ~isLoading
    /\ HandleClearChat

-----------------------------------------------------------------------------
(* The continuations of generateResponse *)

Continue(w) ==
    /\ Install(w)
    /\ UNCHANGED <<hasApiKey, apiKey, nextId, refused>>

Quiet == UNCHANGED inputs

\* generateContentStream / sendMessageStream resolved with a stream
StreamOpen(g) ==
    /\ gens[g].pc = "open"
    /\ Continue([World EXCEPT !.gens[g].pc = "stream"])
    /\ Quiet

\* one turn of the for await loop: onChunk(text, sources)
OnChunk(w, g, c) ==
    LET text == ChunkText(c)
        sources == ExtractSources(c.groundingChunks)
        w1 == Mutate(w, g,
                     [kind |-> "chunk", chunk |-> text, sources |-> sources])
    IN  [w1 EXCEPT !.gens[g].delivered = Append(@, c)]

StreamChunk(g) ==
    /\ gens[g].pc = "stream"
    /\ inputs < MaxInputs
    /\ inputs' = inputs + 1
    /\ \E c \in ProviderChunks : Continue(OnChunk(World, g, c))

\* the stream ended: streamGeminiResponse returns
StreamEnd(g) ==
    /\ gens[g].pc = "stream"
    /\ Continue(FinallyBlock(World, g))
    /\ Quiet

\* the provider call or the stream failed with error: the catch block of
\* streamGeminiResponse throws the classified Error to generateResponse
StreamFailure(g, error) ==
    /\ gens[g].pc \in {"open", "stream"}
    /\ Continue(Throw([World EXCEPT !.gens[g].failure = Some(error)], g,
                      Some(StreamErrorMessage(error))))
    /\ Quiet

StreamError(g) == \E error \in ProviderErrors : StreamFailure(g, error)

\* generateVideo once it holds an operation handle
AfterOperationNoUriCheck(w, g, operation) ==
    LET w0 == [w EXCEPT !.gens[g].operation = Some(operation)]
    IN  IF ~operation.done
        THEN [w0 EXCEPT !.gens[g].pc = "sleep", !.gens[g].waits = @ + 1]
        ELSE LET videoUri == KeyedUri(IF IsSome(operation.uri)
                                      THEN Val(operation.uri) ELSE "undefined",
                                      Val(w0.gens[g].key))
                 w1 == Mutate(w0, g, [kind |-> "video", videoUri |-> videoUri])
             IN  FinallyBlock(w1, g)

AfterOperationNoWait(w, g, operation) ==
    LET w0 == [w EXCEPT !.gens[g].operation = Some(operation)]
    IN  IF ~operation.done
        THEN [w0 EXCEPT !.gens[g].pc = "poll",
                        !.gens[g].remote = Append(@, "getVideosOperation")]
        ELSE IF ~IsSome(operation.uri)
        THEN Throw(w0, g, Some(VideoFailed))
        ELSE LET videoUri == KeyedUri(Val(operation.uri), Val(w0.gens[g].key))
                 w1 == Mutate(w0, g, [kind |-> "video", videoUri |-> videoUri])
             IN  FinallyBlock(w1, g)

AfterOperation(w, g, operation) ==
    LET w0 == [w EXCEPT !.gens[g].operation = Some(operation)]
    IN  IF ~operation.done
        THEN [w0 EXCEPT !.gens[g].pc = "sleep", !.gens[g].waits = @ + 1]
        ELSE IF ~IsSome(operation.uri)
        THEN Throw(w0, g, Some(VideoFailed))
        ELSE LET videoUri == KeyedUri(Val(operation.uri), Val(w0.gens[g].key))
                 w1 == Mutate(w0, g, [kind |-> "video", videoUri |-> videoUri])
             IN  FinallyBlock(w1, g)

\* an answer of the provider to generateVideos or getVideosOperation
Answered(g, operation) ==
    /\ operation.done \/ inputs < MaxInputs
    /\ inputs' = IF operation.done THEN inputs ELSE inputs + 1
    /\ Continue(AfterOperation(World, g, operation))

\* ai.models.generateVideos resolved
VideoSubmitted(g) ==
    /\ gens[g].pc = "submit"
    /\ \E op \in Operations : Answered(g, op)

\* the 5 second setTimeout fired: getVideosOperation is issued
VideoSlept(g) ==
    /\ gens[g].pc = "sleep"
    /\ Continue([World EXCEPT !.gens[g].pc = "poll",
                              !.gens[g].remote = Append(@, "getVideosOperation")])
    /\ Quiet

\* ai.operations.getVideosOperation resolved
VideoPolled(g) ==
    /\ gens[g].pc = "poll"
    /\ \E op \in Operations : Answered(g, op)

\* generateVideos or getVideosOperation failed with error: the catch block
\* of generateVideo throws the same Error whatever it caught
VideoFailure(g, error) ==
    /\ gens[g].pc \in {"submit", "poll"}
    /\ Continue(Throw([World EXCEPT !.gens[g].failure = Some(error)], g,
                      Some(VideoFailed)))
    /\ Quiet

VideoError(g) == \E error \in ProviderErrors : VideoFailure(g, error)

-----------------------------------------------------------------------------
(* Specification *)

Init ==
    /\ messages = <<>>
    /\ isLoading = FALSE
    /\ apiKey \in Keys
    /\ hasApiKey \in BOOLEAN
    /\ chatSession = None
    /\ nextSession = 0
    /\ nextId = 0
    /\ gens = <<>>
    /\ resets = 1
    /\ refused = {}
    /\ inputs = 0

Next ==
    \/ HandleSelectKey
    \/ Submit
    \/ Retry
    \/ Feedback
    \/ ClearChat
    \/ \E g \in DOMAIN gens : StreamOpen(g)
    \/ \E g \in DOMAIN gens : StreamChunk(g)
    \/ \E g \in DOMAIN gens : StreamEnd(g)
    \/ \E g \in DOMAIN gens : StreamError(g)
    \/ \E g \in DOMAIN gens : VideoSubmitted(g)
    \/ \E g \in DOMAIN gens : VideoSlept(g)
    \/ \E g \in DOMAIN gens : VideoPolled(g)
    \/ \E g \in DOMAIN gens : VideoError(g)

Spec == Init /\ [][Next]_vars

-----------------------------------------------------------------------------
(* retry(messageId) as an operation of the engine, called with any id on   *)
(* any log, also one that no sequence of sends produces (a first message   *)
(* of the model, two model messages in a row).                             *)

ErroredMessage(id) == ErrorPatch(BotMessagePlaceholder(id), Some(UnexpectedError))

ApiLogs ==
    { <<>>,
      <<ErroredMessage(1), ErroredMessage(2)>>,
      <<UserMessage(1, PromptNearMiss, None), ErroredMessage(2), ErroredMessage(3)>>,
      <<UserMessage(1, PromptMakeVideo, None), ErroredMessage(2)>>,
      <<UserMessage(1, PromptMakeVideo, Some(Image)), ErroredMessage(2),
        UserMessage(3, PromptNearMiss, None)>> }

ApiIds == {1, 2, 3, 4}

InitApi ==
    /\ messages \in ApiLogs
    /\ isLoading = FALSE
    /\ apiKey \in Keys
    /\ hasApiKey = TRUE
    /\ chatSession \in {None, Some(1)}
    /\ nextSession = 1
    /\ nextId = 3
    /\ gens = <<>>
    /\ resets = 1
    /\ refused = {}
    /\ inputs = 0

RetryCall(id) ==
    /\ inputs < MaxInputs
    /\ inputs' = inputs + 1
    /\ HandleRetry(id)

NextApi ==
    \/ \E id \in ApiIds : RetryCall(id)
    \/ \E g \in DOMAIN gens : StreamOpen(g)
    \/ \E g \in DOMAIN gens : StreamChunk(g)
    \/ \E g \in DOMAIN gens : StreamEnd(g)
    \/ \E g \in DOMAIN gens : StreamError(g)
    \/ \E g \in DOMAIN gens : VideoSubmitted(g)
    \/ \E g \in DOMAIN gens : VideoSlept(g)
    \/ \E g \in DOMAIN gens : VideoPolled(g)
    \/ \E g \in DOMAIN gens : VideoError(g)

SpecApi == InitApi /\ [][NextApi]_vars

-----------------------------------------------------------------------------
(* Vocabulary of the properties *)

Attempts == DOMAIN gens

Target(g) == MsgOf(messages, gens[g].target)

TargetInLog(g) == InLog(messages, gens[g].target)

OnStreamRoute(g) == gens[g].service = "streamGeminiResponse"

\* the texts of a sequence of provider chunks, one after the other
RECURSIVE TextsInOrder(_)
TextsInOrder(chunks) ==
    IF chunks = <<>> THEN <<>>
    ELSE (IF Head(chunks).text = None THEN <<>> ELSE Head(chunks).text[1])
         \o TextsInOrder(Tail(chunks))

\* the {title, uri} citations a provider chunk carries, in order
RECURSIVE WebSources(_)
WebSources(entries) ==
    IF entries = <<>> THEN <<>>
    ELSE (IF Head(entries).web = None THEN <<>>
          ELSE <<[title |-> Head(entries).web[1].title,
                  uri |-> Head(entries).web[1].uri]>>)
         \o WebSources(Tail(entries))

Carried(chunk) ==
    IF chunk.groundingChunks = None THEN <<>>
    ELSE WebSources(chunk.groundingChunks[1])

\* the sources of the last chunk that carried a non-empty list, if any
RECURSIVE LastCarried(_)
LastCarried(chunks) ==
    IF chunks = <<>> THEN None
    ELSE IF Carried(chunks[Len(chunks)]) # <<>>
         THEN Some(Carried(chunks[Len(chunks)]))
         ELSE LastCarried(SubSeq(chunks, 1, Len(chunks) - 1))

\* attempt i of the next state finished with an error in this step
FailsNow(i) ==
    /\ gens'[i].outcome = "error"
    /\ \A j \in DOMAIN gens : gens[j] # gens'[i]

Clearing(g) == {k \in DOMAIN gens[g].muts : gens[g].muts[k].clears}

Flips(g) == {k \in DOMAIN gens[g].muts : gens[g].muts[k].flipped}

LastMutation(g) == gens[g].muts[Len(gens[g].muts)]

-----------------------------------------------------------------------------
(* C1: on the chat and multimodal routes, for an attempt that started from *)
(* an empty placeholder and has not failed, the content of the target      *)
(* message is the concatenation of the chunk texts delivered so far, in    *)
(* delivery order; when the stream has ended it is the concatenation of    *)
(* all N chunks, and empty for N = 0.                                      *)
C1_ContentIsConcatenation ==
    \A g \in Attempts :
        ( /\ OnStreamRoute(g)
          /\ gens[g].outcome # "error"
          /\ TargetInLog(g)
          /\ IsSome(gens[g].startMsg)
          /\ Val(gens[g].startMsg).content = <<>> )
        => Target(g).content = TextsInOrder(gens[g].delivered)

C1_Witness ==
    \E g \in Attempts :
        /\ OnStreamRoute(g)
        /\ gens[g].pc = "done"
        /\ gens[g].outcome = "ok"
        /\ TargetInLog(g)
        /\ Len(gens[g].delivered) = 2
        /\ Target(g).content = <<"a", "b">>

(* C2: at every point of an attempt the groundingSources of the target     *)
(* message are the sources of the last chunk delivered so far that carried *)
(* a non-empty list, and absent when no chunk did.                         *)
C2_SourcesAreLastCarried ==
    \A g \in Attempts :
        TargetInLog(g) => Target(g).groundingSources = LastCarried(gens[g].delivered)

C2_Witness ==
    \E g \in Attempts :
        /\ TargetInLog(g)
        /\ Len(gens[g].delivered) = 2
        /\ Carried(gens[g].delivered[1]) = <<Source1>>
        /\ Carried(gens[g].delivered[2]) = <<Source2>>
        /\ Target(g).groundingSources = Some(<<Source2>>)

(* C3: the step in which an attempt fails, on any route and also after     *)
(* partial content, leaves the target message with isStreaming = false,    *)
(* isError = true and the error's message as its whole content, and leaves *)
(* the session handle absent.                                              *)
C3_ErrorFinalization ==
    [][ \A i \in DOMAIN gens' :
          FailsNow(i) =>
            /\ chatSession' = None
            /\ InLog(messages', gens'[i].target) =>
                 LET m == MsgOf(messages', gens'[i].target)
                 IN  /\ m.isStreaming = Some(FALSE)
                     /\ m.isError = Some(TRUE)
                     /\ IsSome(gens'[i].thrown)
                     /\ m.content = Val(gens'[i].thrown) ]_vars

C3_Witness ==
    \E g \in Attempts :
        /\ gens[g].outcome = "error"
        /\ Len(gens[g].delivered) >= 1
        /\ TextsInOrder(gens[g].delivered) # <<>>
        /\ IsSome(gens[g].discarded)
        /\ TargetInLog(g)
        /\ Target(g).content = RateLimited
        /\ chatSession = None

-----------------------------------------------------------------------------
(* Routing *)

VideoPhrases == {GenerateAVideo, CreateAVideo, MakeAVideo}

MatchesIgnoringCase(prompt, phrase) ==
    \E i \in 1..Len(prompt) :
        /\ i + Len(phrase) - 1 <= Len(prompt)
        /\ \A k \in 1..Len(phrase) : LowerChar(prompt[i + k - 1]) = phrase[k]

PolicyRoute(prompt, attachment) ==
    IF attachment # None THEN "image"
    ELSE IF \E phrase \in VideoPhrases : MatchesIgnoringCase(prompt, phrase)
    THEN "video"
    ELSE "chat"

RouteCalls == {"generateVideos", "generateContentStream", "sendMessageStream"}

Entered(g) == {k \in DOMAIN gens[g].remote : gens[g].remote[k] \in RouteCalls}

(* C5: every attempt takes the route of the first matching rule:           *)
(* attachment -> multimodal analysis (also with a video phrase in the      *)
(* prompt), else a video phrase in any letter case -> video generation,    *)
(* else contextual chat.  It enters exactly one service function and       *)
(* issues the remote call of that one route (none without an API key).     *)
C5_FirstMatchRoute ==
    \A g \in Attempts :
        LET route == PolicyRoute(gens[g].prompt, gens[g].attachment)
            calls == {gens[g].remote[k] : k \in DOMAIN gens[g].remote}
        IN  /\ route = "video" =>
                /\ gens[g].service = "generateVideo"
                /\ calls \subseteq {"generateVideos", "getVideosOperation"}
            /\ route = "image" =>
                /\ gens[g].service = "streamGeminiResponse"
                /\ calls \subseteq {"generateContentStream"}
            /\ route = "chat" =>
                /\ gens[g].service = "streamGeminiResponse"
                /\ calls \subseteq {"sendMessageStream"}
            /\ Cardinality(Entered(g)) = (IF IsSome(gens[g].key) THEN 1 ELSE 0)

C5_Witness ==
    /\ \E g \in Attempts :
          /\ gens[g].prompt = PromptMakeVideo
          /\ gens[g].attachment # None
          /\ gens[g].remote = <<"generateContentStream">>
    /\ \E g \in Attempts :
          /\ gens[g].prompt = PromptMakeVideo
          /\ gens[g].attachment = None
          /\ gens[g].remote = <<"generateVideos">>
    /\ \E g \in Attempts :
          /\ gens[g].prompt = PromptNearMiss
          /\ gens[g].remote = <<"sendMessageStream">>

-----------------------------------------------------------------------------
(* The session handle *)

SingleTurn(g) == gens[g].attachment # None \/ gens[g].service = "generateVideo"

ChatTurn(g) ==
    /\ OnStreamRoute(g)
    /\ gens[g].attachment = None
    /\ IsSome(gens[g].session)

(* C7: the session handle is created lazily and then reused.  A chat-route *)
(* turn creates a handle exactly when none exists at its start, and of two *)
(* chat-route turns with no resetSession (error or clear) between their    *)
(* starts the second sends on the handle of the first and creates none.    *)
C7_SessionReused ==
    /\ \A g \in Attempts :
          ChatTurn(g) =>
              /\ gens[g].created <=> gens[g].sessionBefore = None
              /\ ~gens[g].created => gens[g].session = gens[g].sessionBefore
    /\ \A g, h \in Attempts :
          ( /\ g < h
            /\ ChatTurn(g)
            /\ ChatTurn(h)
            /\ gens[g].resetsBefore = gens[h].resetsBefore )
          => (gens[h].session = gens[g].session /\ ~gens[h].created)

C7_Witness ==
    \E g, h \in Attempts :
        /\ g < h
        /\ ChatTurn(g)
        /\ ChatTurn(h)
        /\ gens[g].kind = "send"
        /\ gens[h].kind = "send"
        /\ gens[g].created
        /\ gens[g].resetsBefore = gens[h].resetsBefore
        /\ gens[h].session = gens[g].session
        /\ nextSession = 1

(* C8: the session handle is absent right after the step in which an       *)
(* attempt fails, whatever its route, and right after clearConversation,   *)
(* which also leaves the log empty.                                        *)
C8_SessionDiscarded ==
    [][ /\ (\E i \in DOMAIN gens' : FailsNow(i)) => chatSession' = None
        /\ ClearChat => (chatSession' = None /\ messages' = <<>>) ]_vars

C8_Witness ==
    \E g \in Attempts :
        /\ SingleTurn(g)
        /\ gens[g].outcome = "error"
        /\ gens[g].remote # <<>>
        /\ IsSome(gens[g].discarded)
        /\ chatSession = None

-----------------------------------------------------------------------------
(* Retry *)

(* C9: retry on a message of the model whose predecessor in the log is a   *)
(* USER message keeps the log's length and every id at its position,       *)
(* changes no other message, hands generate the same message reset to      *)
(* content '', isError false, isStreaming true and no groundingSources,    *)
(* and calls generate with the content and attachment of the preceding     *)
(* USER message, which takes the service of the attempt before.            *)
C9_RetryInPlace ==
    [][ \A i \in DOMAIN messages :
          ( /\ i > 1
            /\ messages[i - 1].role = "user"
            /\ HandleRetry(messages[i].id) )
          =>
            LET gen == gens'[Len(gens')]
            IN  /\ Len(messages') = Len(messages)
                /\ \A j \in DOMAIN messages :
                      /\ messages'[j].id = messages[j].id
                      /\ j # i => messages'[j] = messages[j]
                /\ gen.kind = "retry"
                /\ gen.target = messages[i].id
                /\ IsSome(gen.startMsg)
                /\ Val(gen.startMsg).id = messages[i].id
                /\ Val(gen.startMsg).role = messages[i].role
                /\ Val(gen.startMsg).content = <<>>
                /\ Val(gen.startMsg).isError = Some(FALSE)
                /\ Val(gen.startMsg).isStreaming = Some(TRUE)
                /\ Val(gen.startMsg).groundingSources = None
                /\ gen.prompt = messages[i - 1].content
                /\ gen.attachment = messages[i - 1].attachment
                /\ IsSome(gen.previous)
                /\ Val(gen.previous).service = gen.service
                /\ Val(gen.previous).prompt = gen.prompt
                /\ Val(gen.previous).attachment = gen.attachment ]_vars

C9_Witness ==
    \E g \in Attempts :
        /\ gens[g].kind = "retry"
        /\ gens[g].pc # "done"
        /\ TargetInLog(g)
        /\ IsSome(gens[g].previous)
        /\ Target(g).isStreaming = Some(TRUE)
        /\ Target(g).isError = Some(FALSE)

Refusable(id) ==
    LET i == FindIndex(messages, id)
    IN  i = 0 \/ i = 1 \/ messages[i - 1].role # "user"

(* C10: retry(id) with an id that is not in the log, or of the first       *)
(* message of the log, or of a message whose predecessor is not a USER     *)
(* message changes no message, starts no generation and leaves the session *)
(* handle and the loading flag as they were.                               *)
C10_RetryRefused ==
    [][ \A id \in ApiIds :
          (Refusable(id) /\ RetryCall(id))
          => UNCHANGED <<messages, gens, chatSession, isLoading, nextSession,
                         resets, nextId>> ]_vars

C10_Witness ==
    /\ Len(messages) = 2
    /\ messages[1].role = "model"
    /\ messages[2].role = "model"
    /\ refused = {messages[1].id, messages[2].id, 4}
    /\ gens = <<>>
    /\ IsSome(chatSession)
    /\ \A i \in DOMAIN messages : messages[i] = ErroredMessage(i)

-----------------------------------------------------------------------------
(* Placeholders and requests in flight *)

InFlight == {g \in Attempts : gens[g].pc # "done"}

Streaming == {i \in DOMAIN messages : Truthy(messages[i].isStreaming)}

\* the log is a sequence of pairs (USER message, message of the model) with
\* pairwise distinct ids, and every send entered generate with its target
\* being the empty streaming placeholder
PairedInsertion ==
    /\ Len(messages) % 2 = 0
    /\ \A i \in DOMAIN messages :
          messages[i].role = (IF i % 2 = 1 THEN "user" ELSE "model")
    /\ \A i, j \in DOMAIN messages : messages[i].id = messages[j].id => i = j
    /\ \A g \in Attempts :
          gens[g].kind = "send" =>
              /\ gens[g].startMsg = Some(BotMessagePlaceholder(gens[g].target))
              /\ TargetInLog(g) =>
                    LET i == FindIndex(messages, gens[g].target)
                    IN  /\ i > 1
                        /\ messages[i - 1] =
                              UserMessage(messages[i - 1].id, gens[g].prompt,
                                          gens[g].attachment)

\* every request in flight has its own message in the log, with isStreaming
\* true, and no other message is streaming
OneInFlightPerRequest ==
    /\ \A g \in InFlight : TargetInLog(g) /\ Truthy(Target(g).isStreaming)
    /\ \A g, h \in InFlight : gens[g].target = gens[h].target => g = h
    /\ \A i \in Streaming : \E g \in InFlight : gens[g].target = messages[i].id

(* C11: sendMessage appends the USER message and right after it the empty   *)
(* streaming placeholder of the model with a fresh id, in one insertion     *)
(* made before generate is entered, and every request in flight has exactly *)
(* one message with isStreaming = true.                                     *)
C11_PlaceholderPerRequest == PairedInsertion /\ OneInFlightPerRequest

-----------------------------------------------------------------------------
(* Feedback *)

(* C12: submitFeedback(id, t) sets the feedback of the message to absent    *)
(* when it is t and to t otherwise, and changes no other field and no other *)
(* message; a second call with the same t on a message whose feedback was   *)
(* absent gives back the log as it was before the first.                    *)
C12_FeedbackToggles ==
    [][ \A i \in DOMAIN messages, t \in {"up", "down"} :
          HandleFeedback(messages[i].id, t) =>
            /\ messages' =
                 [messages EXCEPT ![i].feedback = IF @ = Some(t) THEN None ELSE Some(t)]
            /\ messages[i].feedback = None =>
                 /\ messages'[i].feedback = Some(t)
                 /\ MapById(messages', messages[i].id,
                            [kind |-> "feedback", type |-> t]) = messages ]_vars

\* one send, no chunk, no retry: the other two inputs were two feedback calls
\* on the one message of the model, and they left its feedback absent
C12_Witness ==
    /\ inputs = 3
    /\ nextId = 2
    /\ Len(messages) = 2
    /\ Len(gens) = 1
    /\ gens[1].kind = "send"
    /\ gens[1].service = "streamGeminiResponse"
    /\ gens[1].delivered = <<>>
    /\ messages[2].feedback = None

-----------------------------------------------------------------------------
(* Video generation *)

OnVideoRoute(g) == gens[g].service = "generateVideo"

\* the operation handle the attempt received last reported done with a URI
ReportedDoneWithUri(g) ==
    /\ IsSome(gens[g].operation)
    /\ Val(gens[g].operation).done
    /\ IsSome(Val(gens[g].operation).uri)

(* C13: an attempt on the video route first overwrites the content of its   *)
(* target with the notice "Generating video... This may take a moment.", in *)
(* one mutation made before generateVideo is called; until the operation    *)
(* handle reports done the target keeps that notice, is streaming and has   *)
(* no video; and once the handle has reported done with a URI the target    *)
(* has video.uri set (the URI with the key appended) and isStreaming false. *)
C13_VideoProgress ==
    \A g \in Attempts :
        OnVideoRoute(g) =>
            /\ gens[g].muts # <<>>
            /\ gens[g].muts[1].kind = "interim"
            /\ \A k \in DOMAIN gens[g].muts :
                  gens[g].muts[k].kind = "video" => ReportedDoneWithUri(g)
            /\ (gens[g].pc # "done" /\ TargetInLog(g)) =>
                  /\ Len(gens[g].muts) = 1
                  /\ Target(g).content = GeneratingNotice
                  /\ Target(g).video = None
                  /\ Truthy(Target(g).isStreaming)
            /\ ReportedDoneWithUri(g) =>
                  /\ gens[g].pc = "done"
                  /\ gens[g].outcome = "ok"
                  /\ TargetInLog(g) =>
                        /\ Target(g).video =
                              Some([uri |-> <<Val(Val(gens[g].operation).uri),
                                              "&key=", Val(gens[g].key)>>])
                        /\ Target(g).isStreaming = Some(FALSE)
                        /\ ~Truthy(Target(g).isError)

C13_Witness ==
    \E g \in Attempts :
        /\ OnVideoRoute(g)
        /\ gens[g].kind = "send"
        /\ gens[g].remote = <<"generateVideos", "getVideosOperation">>
        /\ ReportedDoneWithUri(g)
        /\ TargetInLog(g)
        /\ IsSome(Target(g).video)
        /\ Target(g).isStreaming = Some(FALSE)

-----------------------------------------------------------------------------
(* The failures of the provider in full: one send, whose remote call or     *)
(* stream fails with any description made of at most two of the parts       *)
(* below, or with none.                                                     *)

DescriptionParts ==
    { <<"4","2","9">>,
      <<"5","0","3">>,
      <<"A","P","I"," ","k","e","y">>,
      <<"S","A","F","E","T","Y">>,
      <<"A","P","I"," ","K","e","y">>,
      <<"s","a","f","e","t","y">>,
      <<"b","o","o","m">> }

Descriptions ==
    {None, Some(<<>>)}
    \cup {Some(p) : p \in DescriptionParts}
    \cup {Some(p \o <<" ">> \o q) : p, q \in DescriptionParts}

InitFailures ==
    /\ messages = <<>>
    /\ isLoading = FALSE
    /\ apiKey = Some("KEY")
    /\ hasApiKey = TRUE
    /\ chatSession = None
    /\ nextSession = 0
    /\ nextId = 0
    /\ gens = <<>>
    /\ resets = 1
    /\ refused = {}
    /\ inputs = 0

FirstSubmit == messages = <<>> /\ Submit

NextFailures ==
    \/ FirstSubmit
    \/ \E g \in DOMAIN gens : StreamOpen(g)
    \/ \E g \in DOMAIN gens : StreamChunk(g)
    \/ \E g \in DOMAIN gens : VideoSubmitted(g)
    \/ \E g \in DOMAIN gens : VideoSlept(g)
    \/ \E g \in DOMAIN gens, error \in Descriptions : StreamFailure(g, error)
    \/ \E g \in DOMAIN gens, error \in Descriptions : VideoFailure(g, error)

SpecFailures == InitFailures /\ [][NextFailures]_vars

-----------------------------------------------------------------------------
(* Error classification *)

\* the ordered list of (substring, user-facing message) pairs
Taxonomy ==
    << [needle |-> <<"4","2","9">>, message |-> RateLimited],
       [needle |-> <<"5","0","3">>, message |-> Overloaded],
       [needle |-> <<"A","P","I"," ","k","e","y">>, message |-> KeyProblem],
       [needle |-> <<"S","A","F","E","T","Y">>, message |-> SafetyBlocked] >>

Contains(text, needle) ==
    \E i \in 1..Len(text) :
        /\ i + Len(needle) - 1 <= Len(text)
        /\ \A k \in 1..Len(needle) : text[i + k - 1] = needle[k]

\* the entries of the taxonomy a description matches
Hits(description) ==
    IF IsSome(description)
    THEN {k \in DOMAIN Taxonomy : Contains(Val(description), Taxonomy[k].needle)}
    ELSE {}

FirstHit(description) ==
    CHOOSE k \in Hits(description) : \A j \in Hits(description) : k <= j

\* the attempt failed in a remote call, with this description
Failed(g) == IsSome(gens[g].failure)

Description(g) == Val(gens[g].failure)

(* C14: on the chat and multimodal routes a failure of the remote call      *)
(* whose description contains one of "429", "503", "API key", "SAFETY" gets *)
(* the message of the first of them in that order, whichever comes first in *)
(* the text, and that message is the content of the target.                 *)
C14_FirstMatchClassification ==
    \A g \in Attempts :
        (OnStreamRoute(g) /\ Failed(g) /\ Hits(Description(g)) # {}) =>
            LET message == Taxonomy[FirstHit(Description(g))].message
            IN  /\ gens[g].thrown = Some(message)
                /\ TargetInLog(g) => Target(g).content = message

C14_Witness ==
    \E g \in Attempts :
        /\ OnStreamRoute(g)
        /\ Failed(g)
        /\ Description(g) =
              Some(<<"S","A","F","E","T","Y"," ","A","P","I"," ","k","e","y">>)
        /\ Hits(Description(g)) = {3, 4}
        /\ gens[g].delivered # <<>>
        /\ TargetInLog(g)
        /\ Target(g).content = KeyProblem

\* the description of the failure is a text of at least one character
Described(g) == IsSome(Description(g)) /\ Val(Description(g)) # <<>>

(* C15 as stated: a failure whose description matches none of the four      *)
(* substrings leaves the raw provider message as the content of the target, *)
(* or the generic fallback message when the failure has no description.     *)
C15_RawMessage ==
    \A g \in Attempts :
        (OnStreamRoute(g) /\ Failed(g) /\ Hits(Description(g)) = {} /\ TargetInLog(g)) =>
            Target(g).content =
                IF Described(g) THEN Val(Description(g)) ELSE UnexpectedError

(* C15 as amended: on the chat and multimodal routes a failure whose        *)
(* description matches none of the four substrings leaves "Error: "         *)
(* followed by the raw provider message as the content of the target, and   *)
(* "An unexpected error occurred. Please try again." when the failure has   *)
(* no description or an empty one.                                          *)
C15_PrefixedRawMessage ==
    \A g \in Attempts :
        (OnStreamRoute(g) /\ Failed(g) /\ Hits(Description(g)) = {}) =>
            LET message == IF Described(g)
                           THEN <<"Error: ">> \o Val(Description(g))
                           ELSE UnexpectedError
            IN  /\ gens[g].thrown = Some(message)
                /\ TargetInLog(g) =>
                      /\ Target(g).content = message
                      /\ Truthy(Target(g).isError)

C15_Witness ==
    \E g \in Attempts :
        /\ OnStreamRoute(g)
        /\ Failed(g)
        /\ Description(g) = Some(<<"A","P","I"," ","K","e","y">>)
        /\ TargetInLog(g)
        /\ Target(g).content = <<"Error: ", "A","P","I"," ","K","e","y">>

(* C16: a failure of generateVideos or getVideosOperation whose description *)
(* contains "429", "503", "API key" or "SAFETY" leaves the rate-limited,    *)
(* service-overloaded, credential-problem or content-blocked message as the *)
(* content of the target.                                                   *)
C16_VideoFailureClassified ==
    \A g \in Attempts :
        (OnVideoRoute(g) /\ Failed(g) /\ Hits(Description(g)) # {} /\ TargetInLog(g)) =>
            Target(g).content = Taxonomy[FirstHit(Description(g))].message

-----------------------------------------------------------------------------
(* Failures stay inside generate *)

(* C17: the promise of generateResponse is never rejected.  Every Error     *)
(* thrown inside it (a missing API key, a failure of a remote call on any   *)
(* route) is taken by its catch block: the attempt ends fulfilled, with its *)
(* target, if in the log, in the error state (isError true, isStreaming     *)
(* false), for sends and for retries.                                       *)
C17_NeverRaises ==
    \A g \in Attempts :
        /\ gens[g].settled # "rejected"
        /\ gens[g].pending = None
        /\ gens[g].pc = "done" <=> gens[g].settled = "fulfilled"
        /\ (Failed(g) \/ IsSome(gens[g].thrown)) =>
              /\ gens[g].settled = "fulfilled"
              /\ gens[g].outcome = "error"
              /\ IsSome(gens[g].thrown)
              /\ TargetInLog(g) =>
                    /\ Truthy(Target(g).isError)
                    /\ Target(g).isStreaming = Some(FALSE)

C17_Witness ==
    \E g \in Attempts :
        /\ gens[g].kind = "retry"
        /\ OnVideoRoute(g)
        /\ Failed(g)
        /\ gens[g].settled = "fulfilled"
        /\ TargetInLog(g)
        /\ Truthy(Target(g).isError)

-----------------------------------------------------------------------------
(* USER messages *)

ReportedDoneWithoutUri(gen) == gen.operation = Some([done |-> TRUE, uri |-> None])

(* C19: a video operation that reports done without a URI is fatal for the  *)
(* attempt and goes through the shared error path: the attempt ends in the  *)
(* step of that report as a failure, no video patch is applied, the target  *)
(* has isError true, isStreaming false and no video, and the session handle *)
(* is absent after the step.                                                *)
C19_NoUriIsFatal ==
    [][ \A i \in DOMAIN gens' :
          ReportedDoneWithoutUri(gens'[i]) =>
            /\ gens'[i].pc = "done"
            /\ gens'[i].outcome = "error"
            /\ gens'[i].thrown = Some(VideoFailed)
            /\ \A k \in DOMAIN gens'[i].muts : gens'[i].muts[k].kind # "video"
            /\ gens'[i].muts[Len(gens'[i].muts) - 1].kind = "error"
            /\ FailsNow(i) => chatSession' = None
            /\ InLog(messages', gens'[i].target) =>
                 LET m == MsgOf(messages', gens'[i].target)
                 IN  /\ Truthy(m.isError)
                     /\ m.isStreaming = Some(FALSE)
                     /\ m.video = None ]_vars

C19_Witness ==
    \E g \in Attempts :
        /\ ReportedDoneWithoutUri(gens[g])
        /\ gens[g].remote = <<"generateVideos", "getVideosOperation">>
        /\ IsSome(gens[g].discarded)
        /\ chatSession = None
        /\ TargetInLog(g)
        /\ Truthy(Target(g).isError)
        /\ Target(g).video = None

-----------------------------------------------------------------------------
(* The loading flag *)

(* C20: while a generation started by sendMessage or retry is in flight,    *)
(* isLoading is true (so that the input and Clear Chat are disabled), also  *)
(* when a retry overlaps with another generation in flight.                 *)
C20_LoadingWhileInFlight == InFlight # {} => isLoading

-----------------------------------------------------------------------------
(* Generations per target *)

(* C21: at most one generation is in flight per target message.  A message  *)
(* that is streaming is not an error message, so the target of a generation *)
(* in flight has no Try Again button, and no two attempts that are not      *)
(* finished have the same target.                                           *)
C21_OneGenerationPerTarget ==
    /\ \A g, h \in InFlight : gens[g].target = gens[h].target => g = h
    /\ \A i \in DOMAIN messages :
          ~(Truthy(messages[i].isStreaming) /\ Truthy(messages[i].isError))
    /\ \A g \in InFlight : TargetInLog(g) => ~Truthy(Target(g).isError)

\* two generations in flight on two targets, one of them a retry
C21_Witness ==
    \E g, h \in InFlight :
        /\ gens[g].target # gens[h].target
        /\ gens[g].kind = "send"
        /\ gens[h].kind = "retry"
        /\ TargetInLog(g)
        /\ TargetInLog(h)
        /\ Truthy(Target(g).isStreaming)
        /\ Truthy(Target(h).isStreaming)

-----------------------------------------------------------------------------
(* The polling loop of generateVideo *)

\* the getVideosOperation calls the attempt has issued
Polls(g) == Len(SelectSeq(gens[g].remote, LAMBDA call : call = "getVideosOperation"))

\* the operation handle the attempt received last reported not done
ReportedNotDone(g) ==
    /\ IsSome(gens[g].operation)
    /\ ~Val(gens[g].operation).done

(* C22: on the video route every poll comes after a wait of its own, the    *)
(* attempt goes on waiting and polling as long as the handle it holds       *)
(* reports not done, and the media URI is read only from a handle that      *)
(* reports done; on success the target has the content "Here is your        *)
(* generated video:" and video.uri is the produced URI followed by "&key="  *)
(* and the API key.                                                         *)
C22_PollUntilDone ==
    \A g \in Attempts :
        OnVideoRoute(g) =>
            /\ gens[g].pc = "sleep" => Polls(g) + 1 = gens[g].waits
            /\ gens[g].pc # "sleep" => Polls(g) = gens[g].waits
            /\ gens[g].remote # <<>> =>
                  /\ gens[g].remote[1] = "generateVideos"
                  /\ Polls(g) = Len(gens[g].remote) - 1
            /\ (ReportedNotDone(g) /\ ~IsSome(gens[g].failure)) =>
                  /\ gens[g].pc \in {"sleep", "poll"}
                  /\ gens[g].waits > 0
            /\ (gens[g].pc = "sleep") => ReportedNotDone(g)
            /\ \A k \in DOMAIN gens[g].muts :
                  gens[g].muts[k].kind = "video" =>
                      /\ Val(gens[g].operation).done
                      /\ IsSome(Val(gens[g].operation).uri)
            /\ (gens[g].outcome = "ok" /\ TargetInLog(g)) =>
                  /\ ReportedDoneWithUri(g)
                  /\ Target(g).content = VideoReadyText
                  /\ Target(g).video =
                        Some([uri |-> <<Val(Val(gens[g].operation).uri),
                                        "&key=", Val(gens[g].key)>>])
                  /\ Target(g).isStreaming = Some(FALSE)

\* success after two waits and two polls
C22_Witness ==
    \E g \in Attempts :
        /\ OnVideoRoute(g)
        /\ gens[g].waits = 2
        /\ Polls(g) = 2
        /\ gens[g].outcome = "ok"
        /\ TargetInLog(g)
        /\ Target(g).content = <<"Here is your generated video:">>
        /\ Target(g).video =
              Some([uri |-> <<"https://video/1?alt=media", "&key=", "KEY">>])

-----------------------------------------------------------------------------
(* The frame of the mutations of a generation *)

\* a step taken by attempt g after the task that started it
GenerationStep(g) ==
    \/ StreamOpen(g)
    \/ StreamChunk(g)
    \/ StreamEnd(g)
    \/ StreamError(g)
    \/ VideoSubmitted(g)
    \/ VideoSlept(g)
    \/ VideoPolled(g)
    \/ VideoError(g)

\* messages' has the messages of messages in the same order, and differs
\* from it at most in the message whose id is id
OnlyChanged(id) ==
    /\ Len(messages') = Len(messages)
    /\ \A i \in DOMAIN messages :
          /\ messages'[i].id = messages[i].id
          /\ messages'[i].role = messages[i].role
          /\ messages'[i] # messages[i] => messages[i].id = id

(* C23: a step of a generation changes at most the message whose id is its  *)
(* target and neither the length nor the order of the log, and leaves the   *)
(* log as it is when the target is not in it; in the task that starts a     *)
(* generation, a send leaves the messages already in the log as they were   *)
(* and a retry changes only its target.                                     *)
C23_GenerationFrame ==
    [][ /\ \A g \in DOMAIN gens :
              GenerationStep(g) =>
                  /\ OnlyChanged(gens[g].target)
                  /\ ~InLog(messages, gens[g].target) => messages' = messages
                  /\ nextId' = nextId
        /\ Submit =>
              /\ Len(messages') = Len(messages) + 2
              /\ \A i \in DOMAIN messages : messages'[i] = messages[i]
        /\ Retry =>
              /\ gens' # <<>>
              /\ OnlyChanged(gens'[Len(gens')].target)
      ]_vars

\* a generation whose target was cleared from the log during its flight has
\* ended as a failure: its error and final mutations found no message
C23_Witness ==
    \E g \in Attempts :
        /\ gens[g].pc = "done"
        /\ IsSome(gens[g].startMsg)
        /\ ~TargetInLog(g)
        /\ Len(gens[g].muts) = 2
        /\ gens[g].muts[1].kind = "error"
        /\ gens[g].muts[2].kind = "final"
        /\ OnStreamRoute(g)
        /\ messages = <<>>

-----------------------------------------------------------------------------
(* The shape of the log *)

(* C24: in every reachable state the log has even length, its ids are       *)
(* pairwise distinct and its roles alternate USER, MODEL from the first     *)
(* message on; so every message of the model comes right after a USER       *)
(* message, handleRetry does not refuse any of them, and no retry has been  *)
(* refused.                                                                 *)
C24_LogShape ==
    /\ Len(messages) % 2 = 0
    /\ \A i, j \in DOMAIN messages : messages[i].id = messages[j].id => i = j
    /\ \A i \in DOMAIN messages :
          /\ i % 2 = 1 => messages[i].role = "user"
          /\ i % 2 = 0 => messages[i].role = "model"
    /\ \A i \in DOMAIN messages :
          messages[i].role = "model" =>
              /\ i > 1
              /\ messages[i - 1].role = "user"
              /\ ~Refusable(messages[i].id)
    /\ refused = {}

\* a log of two pairs, the first of which was retried to the end
C24_Witness ==
    /\ Len(messages) = 4
    /\ \E g \in Attempts :
          /\ gens[g].kind = "retry"
          /\ gens[g].target = messages[2].id
          /\ gens[g].pc = "done"

-----------------------------------------------------------------------------
(* Overlapping requests and the session handle *)

\* chat-route attempts g and h are in flight together, g started first with
\* no session handle, and no resetSession came between their starts
Overlapping(g, h) ==
    /\ g < h
    /\ g \in InFlight
    /\ h \in InFlight
    /\ ChatTurn(g)
    /\ ChatTurn(h)
    /\ gens[g].sessionBefore = None
    /\ gens[g].resetsBefore = gens[h].resetsBefore

(* C25: the test for a missing session handle and its assignment are one    *)
(* step.  Of two chat-route requests in flight together, the first of which *)
(* started with no handle and with no error or clear between their starts,  *)
(* the first created the handle, the second created none, and both sent on  *)
(* that handle, which is still the current one if no error or clear         *)
(* happened since; an attempt never sends on a handle other than the one it *)
(* found or the one it created from none.                                   *)
C25_OneSessionForOverlap ==
    /\ \A g, h \in Attempts :
          Overlapping(g, h) =>
              /\ gens[g].created
              /\ ~gens[h].created
              /\ gens[h].sessionBefore = gens[g].session
              /\ gens[h].session = gens[g].session
              /\ resets = gens[g].resetsBefore => chatSession = gens[g].session
    /\ \A g \in Attempts :
          ChatTurn(g) =>
              IF gens[g].sessionBefore = None
              THEN gens[g].created /\ gens[g].session # None
              ELSE ~gens[g].created /\ gens[g].session = gens[g].sessionBefore

\* a send that created the handle and a retry that started during its flight
C25_Witness ==
    \E g, h \in Attempts :
        /\ Overlapping(g, h)
        /\ gens[g].kind = "send"
        /\ gens[h].kind = "retry"
        /\ gens[h].session = gens[g].session
        /\ chatSession = gens[g].session

====
